---- MODULE Spec2Model ----
(***************************************************************************)
(* sc::vector<T> and its iterator (source/vector.h) as a state machine.   *)
(*                                                                         *)
(* Two vector objects, "a" and "b", live over one heap of array buffers.  *)
(* A pointer is a pair (buffer id, slot index); slot i of the C++ array   *)
(* is element i + 1 of the buffer's sequence.  Every member function is   *)
(* one action, translated statement by statement.                         *)
(***************************************************************************)
EXTENDS Integers, Sequences, FiniteSets, TLC

\* ------------------------------------------------------------------ bounds
MaxHeap == 4    \* slots a vector may own while it is the only one alive
MaxPair == 2    \* slots the two vectors may own together while both are alive
MaxRange == 2   \* length of the external sequence that ranges are taken from
NumBufs == 3    \* buffer addresses: one per vector and one more during a reallocation
MaxGrow == 8    \* slots of the heap in the run that counts reallocations
MaxObs == 2     \* capacity of the vectors the pure queries are applied to

Val == {1, 2}            \* the element values T ranges over
Vecs == {"a", "b"}       \* the vector objects
BufIds == 1..NumBufs
NULL == 0                \* nullptr

\* size_type is an unsigned 64-bit integer; the model keeps its wrap-around at
\* a narrower width that is still far above every bound.
SizeModulus == 1073741824
Wrap(n) == n % SizeModulus

VARIABLES
  vec,      \* vec[x]: the members m_end, m_capacity, m_storage of object x
  mem,      \* mem[b]: buffer b of the heap: live or not, and its slots
  last,     \* the last call made: which, on what, its arguments, what it returned
  hist,     \* observer of an insert(pos, v) followed by erase(pos)
  status,   \* "ok", or "crashed" once a call has run into undefined behaviour
  tally     \* the heap's size in slots, and a count of push_backs and of the
            \* reallocations they made

vars == <<vec, mem, last, hist, status, tally>>

\* ----------------------------------------------------------------- helpers
\* The external sequence that range and initializer-list arguments are taken
\* from, and the ranges [first, last) that two positions in it delimit.
Source == [j \in 1..MaxRange |-> IF j % 2 = 1 THEN 1 ELSE 2]
Ranges == {SubSeq(Source, first, last_ - 1) :
             first \in 1..(MaxRange + 1), last_ \in 1..(MaxRange + 1)}

\* new T[n]: n slots whose values are indeterminate until written.  The caller
\* writes slots [0, written) before anything reads them, so only the values of
\* the other slots are told apart.
NewArray(n, written) ==
  {[j \in 1..n |-> IF j <= written THEN 1 ELSE tail[j - written]] :
     tail \in [1..(n - written) -> Val]}

\* MyForwardIterator: the wrapped raw pointer m_ptr.
Iter(b, i) == [buf |-> b, idx |-> i]
NullIter == Iter(NULL, 0)

NoVec == [alive |-> FALSE, m_end |-> 0, m_capacity |-> 0, m_storage |-> NULL]
NoBuf == [live |-> FALSE, data |-> <<>>]
\* What a query gave: the value it returned, or the exception it threw.
Returned(v) == [thrown |-> FALSE, value |-> v]
NoRes == Returned(0)
NoCall == [op |-> "none", x |-> "a", pos |-> 0, n |-> 0,
           realloc |-> FALSE, ret |-> NullIter, y |-> "a", res |-> NoRes]
NoHist == [phase |-> "none", x |-> "a", pos |-> 0, before |-> <<>>]

\* A call of a mutating member: it has no second object and returns no value
\* other than an iterator.
Call(op, x, pos, n, realloc, ret) ==
  [op |-> op, x |-> x, pos |-> pos, n |-> n, realloc |-> realloc, ret |-> ret,
   y |-> x, res |-> NoRes]

\* A call of a query on x (and y) with argument pos, and the value it
\* returned or the exception it threw.
Query(op, x, y, pos, res) ==
  [Call(op, x, pos, 0, FALSE, NullIter) EXCEPT !.y = y, !.res = res]

\* No run of push_backs is being counted.
NoTally == [heap |-> MaxHeap, on |-> FALSE, x |-> "a", pushes |-> 0, reallocs |-> 0]

\* The slots of x's buffer, live and dead.
Data(x) == mem[vec[x].m_storage].data

\* size(), capacity(), empty()
size(x) == vec[x].m_end
capacity(x) == vec[x].m_capacity
empty(x) == vec[x].m_end = 0

\* The live elements [0, m_end) of x.
Content(x) == SubSeq(Data(x), 1, vec[x].m_end)

\* begin(), end()
begin(x) == Iter(vec[x].m_storage, 0)
end(x) == Iter(vec[x].m_storage, vec[x].m_end)

\* operator+(iterator, offset), operator-(iterator, iterator)
IterPlus(it, offset) == Iter(it.buf, it.idx + offset)
IterDiff(ita, itb) == ita.idx - itb.idx

\* storage[i] = v
Store(data, i, v) == [data EXCEPT ![i + 1] = v]

\* The copy loop stopping one element early.
CopyPrefixShort(dst, src, count) ==
  [j \in 1..Len(dst) |-> IF j < count THEN src[j] ELSE dst[j]]

\* for (i = 0; i < count; ++i) dst[i] = src[i];
CopyPrefix(dst, src, count) ==
  [j \in 1..Len(dst) |-> IF j <= count THEN src[j] ELSE dst[j]]

\* The model's heap is finite: object x may own n slots if that is within
\* the heap's size (MaxHeap, but for the run that counts reallocations) and,
\* while the other vector is alive, the two then own no more than MaxPair
\* together.
Fits(x, n) ==
  /\ n <= tally.heap
  /\ \A y \in Vecs \ {x} : vec[y].alive => n + vec[y].m_capacity <= MaxPair

\* The address new[] returns: one that is not in use.
NewId(m) ==
  LET free == {b \in BufIds : ~m[b].live} IN
  CHOOSE b \in free : \A c \in free : b <= c

Alloc(m, b, data) == [m EXCEPT ![b] = [live |-> TRUE, data |-> data]]

\* delete[] p
Delete(m, p) == IF p \in BufIds THEN [m EXCEPT ![p] = NoBuf] ELSE m
DeleteOK(m, p) == p = NULL \/ (p \in BufIds /\ m[p].live)

Running == status = "ok"
Alive(x) == vec[x].alive

SetVec(x, e, c, s) ==
  [vec EXCEPT ![x] = [alive |-> TRUE, m_end |-> e, m_capacity |-> c, m_storage |-> s]]

\* The count of the push_backs made on a vector since it was constructed with
\* length 0 and capacity 0, and of the reallocations among them.  A
\* constructor that leaves x so starts the count, a push_back on x advances
\* it, every other call ends it.
Untallied == [tally EXCEPT !.on = FALSE, !.x = "a", !.pushes = 0, !.reallocs = 0]
Constructed(x, m_end, m_capacity) ==
  IF m_end = 0 /\ m_capacity = 0 THEN [Untallied EXCEPT !.on = TRUE, !.x = x]
  ELSE Untallied
Pushed(x, realloc) ==
  IF tally.on /\ tally.x = x
  THEN [tally EXCEPT !.pushes = @ + 1,
                     !.reallocs = IF realloc THEN @ + 1 ELSE @]
  ELSE Untallied

\* ------------------------------------------------------------ constructors
\* explicit vector(size_type cp)
ctor_size(x, cp) ==
  /\ Running /\ ~Alive(x) /\ Fits(x, cp)
  /\ tally' = Constructed(x, cp, cp)
  /\ \E fresh \in NewArray(cp, 0) :
       LET m_storage == NewId(mem) IN
       /\ mem' = Alloc(mem, m_storage, fresh)
       /\ vec' = SetVec(x, cp, cp, m_storage)
       /\ last' = Call("ctor_size", x, cp, 0, FALSE, NullIter)
  /\ hist' = NoHist
  /\ UNCHANGED status

\* vector(const std::initializer_list<T>&)
ctor_ilist(x, il) ==
  /\ Running /\ ~Alive(x) /\ Fits(x, Len(il))
  /\ tally' = Constructed(x, Len(il), Len(il))
  /\ LET m_storage == NewId(mem) IN
     /\ mem' = Alloc(mem, m_storage, il)
     /\ vec' = SetVec(x, Len(il), Len(il), m_storage)
     /\ last' = Call("ctor_ilist", x, 0, Len(il), FALSE, NullIter)
  /\ hist' = NoHist
  /\ UNCHANGED status

\* A copy constructor that copies the pointer instead of the elements.
ctor_copy_shallow(x, other) ==
  /\ Running /\ ~Alive(x) /\ Alive(other) /\ Fits(x, vec[other].m_capacity)
  /\ tally' = Untallied
  /\ vec' = SetVec(x, vec[other].m_end, vec[other].m_capacity, vec[other].m_storage)
  /\ last' = Call("ctor_copy", x, 0, 0, FALSE, NullIter)
  /\ hist' = NoHist
  /\ UNCHANGED <<mem, status>>

\* vector(const vector& other)
ctor_copy(x, other) ==
  /\ Running /\ ~Alive(x) /\ Alive(other) /\ Fits(x, vec[other].m_capacity)
  /\ tally' = Untallied
  /\ \E fresh \in NewArray(vec[other].m_capacity, vec[other].m_end) :
       LET m_storage == NewId(mem) IN
       /\ mem' = Alloc(mem, m_storage, CopyPrefix(fresh, Data(other), vec[other].m_end))
       /\ vec' = SetVec(x, vec[other].m_end, vec[other].m_capacity, m_storage)
  /\ last' = Call("ctor_copy", x, 0, 0, FALSE, NullIter)
  /\ hist' = NoHist
  /\ UNCHANGED status

\* template <typename InputItr> vector(InputItr first, InputItr last)
ctor_range(x, range) ==
  /\ Running /\ ~Alive(x) /\ Fits(x, Len(range))
  /\ tally' = Constructed(x, Len(range), Len(range))
  /\ LET range_size == Len(range)
         m_storage == NewId(mem)
     IN /\ mem' = Alloc(mem, m_storage, range)
        /\ vec' = SetVec(x, range_size, range_size, m_storage)
  /\ last' = Call("ctor_range", x, 0, Len(range), FALSE, NullIter)
  /\ hist' = NoHist
  /\ UNCHANGED status

\* operator= without its delete[].
assign_op_leaking(x, other) ==
  /\ Running /\ Alive(x) /\ Alive(other)
  /\ tally' = Untallied
  /\ IF x # other
     THEN /\ Fits(x, vec[other].m_capacity)
          /\ \E fresh \in NewArray(vec[other].m_capacity, vec[other].m_end) :
               LET m0 == mem
                   m_storage == NewId(mem)
               IN /\ mem' = Alloc(m0, m_storage,
                                  CopyPrefix(fresh, Data(other), vec[other].m_end))
                  /\ vec' = SetVec(x, vec[other].m_end, vec[other].m_capacity, m_storage)
          /\ last' = Call("assign_op", x, 0, 0, TRUE, NullIter)
     ELSE /\ UNCHANGED <<vec, mem>>
          /\ last' = Call("assign_op", x, 0, 0, FALSE, NullIter)
  /\ hist' = NoHist
  /\ UNCHANGED status

\* vector& operator=(const vector& other)
assign_op(x, other) ==
  /\ Running /\ Alive(x) /\ Alive(other)
  /\ tally' = Untallied
  /\ IF x # other
     THEN /\ Fits(x, vec[other].m_capacity)
          /\ \E fresh \in NewArray(vec[other].m_capacity, vec[other].m_end) :
               \* The array new[] makes is another object than the one
               \* delete[] has just released, whatever its address: it gets
               \* an id of its own.
               LET m0 == Delete(mem, vec[x].m_storage)
                   m_storage == NewId(mem)
               IN /\ mem' = Alloc(m0, m_storage,
                                  CopyPrefix(fresh, Data(other), vec[other].m_end))
                  /\ vec' = SetVec(x, vec[other].m_end, vec[other].m_capacity, m_storage)
          /\ last' = Call("assign_op", x, 0, 0, TRUE, NullIter)
     ELSE /\ UNCHANGED <<vec, mem>>
          /\ last' = Call("assign_op", x, 0, 0, FALSE, NullIter)
  /\ hist' = NoHist
  /\ UNCHANGED status

\* ~vector()
dtor(x) ==
  /\ Running /\ Alive(x)
  /\ tally' = Untallied
  /\ mem' = Delete(mem, vec[x].m_storage)
  /\ status' = IF DeleteOK(mem, vec[x].m_storage) THEN "ok" ELSE "crashed"
  /\ vec' = [vec EXCEPT ![x] = NoVec]
  /\ last' = Call("dtor", x, 0, 0, FALSE, NullIter)
  /\ hist' = NoHist

\* clear() that also gives the buffer back.
clear_release(x) ==
  /\ Running /\ Alive(x)
  /\ tally' = Untallied
  /\ LET m0 == Delete(mem, vec[x].m_storage)
         m_storage == NewId(m0)
     IN /\ mem' = Alloc(m0, m_storage, <<>>)
        /\ vec' = SetVec(x, 0, 0, m_storage)
  /\ last' = Call("clear", x, 0, 0, FALSE, NullIter)
  /\ hist' = NoHist
  /\ UNCHANGED status

\* --------------------------------------------------------------- modifiers
\* void clear()
clear(x) ==
  /\ Running /\ Alive(x)
  /\ tally' = Untallied
  /\ vec' = [vec EXCEPT ![x].m_end = 0]
  /\ last' = Call("clear", x, 0, 0, FALSE, NullIter)
  /\ hist' = NoHist
  /\ UNCHANGED <<mem, status>>

\* Growth by one slot instead of doubling.
GrownCapacityByOne(m_capacity) == m_capacity + 1

\* The capacity push_back and insert(pos, value) grow to when full.
GrownCapacity(m_capacity) == IF m_capacity = 0 THEN 1 ELSE 2 * m_capacity

\* void push_back(const_reference value)
push_back(x, value) ==
  /\ Running /\ Alive(x)
  /\ tally' = Pushed(x, vec[x].m_end = vec[x].m_capacity)
  /\ LET V == vec[x] IN
     IF V.m_end = V.m_capacity
     THEN LET new_capacity == GrownCapacity(V.m_capacity) IN
          /\ Fits(x, new_capacity)
          /\ \E fresh \in NewArray(new_capacity, V.m_end + 1) :
               LET new_storage == NewId(mem)
                   copied == CopyPrefix(fresh, Data(x), V.m_end)
                   m1 == Alloc(mem, new_storage, Store(copied, V.m_end, value))
               IN /\ mem' = Delete(m1, V.m_storage)
                  /\ vec' = SetVec(x, V.m_end + 1, new_capacity, new_storage)
          /\ last' = Call("push_back", x, 0, 0, TRUE, NullIter)
     ELSE /\ mem' = [mem EXCEPT ![V.m_storage].data = Store(@, V.m_end, value)]
          /\ vec' = [vec EXCEPT ![x].m_end = V.m_end + 1]
          /\ last' = Call("push_back", x, 0, 0, FALSE, NullIter)
  /\ hist' = NoHist
  /\ UNCHANGED status

\* pop_back without its test for an empty vector.
pop_back_unguarded(x) ==
  /\ Running /\ Alive(x)
  /\ tally' = Untallied
  /\ vec' = [vec EXCEPT ![x].m_end = Wrap(@ - 1)]
  /\ last' = Call("pop_back", x, 0, 0, FALSE, NullIter)
  /\ hist' = NoHist
  /\ UNCHANGED <<mem, status>>

\* void pop_back()
pop_back(x) ==
  /\ Running /\ Alive(x)
  /\ tally' = Untallied
  /\ vec' = [vec EXCEPT ![x].m_end = IF @ > 0 THEN @ - 1 ELSE @]
  /\ last' = Call("pop_back", x, 0, 0, FALSE, NullIter)
  /\ hist' = NoHist
  /\ UNCHANGED <<mem, status>>

\* The shift run front to back, each slot overwritten before it is read.
RECURSIVE ShiftOneForward(_, _, _)
ShiftOneForward(data, i, index) ==
  IF index < i
  THEN ShiftOneForward(Store(data, index + 1, data[index + 1]), i, index + 1)
  ELSE data

\* for (i = m_end; i > index; --i) m_storage[i] = m_storage[i - 1];
RECURSIVE ShiftOne(_, _, _)
ShiftOne(data, i, index) ==
  IF i > index THEN ShiftOne(Store(data, i, data[i]), i - 1, index) ELSE data

\* iterator insert(iterator pos_, const_reference value_), pos_ = begin() + index
insert(x, index, value) ==
  /\ Running /\ Alive(x) /\ index \in 0..vec[x].m_end
  /\ tally' = Untallied
  /\ LET V == vec[x]
         pos_ == IterPlus(begin(x), index)
         idx == IterDiff(pos_, begin(x))
     IN
     IF V.m_end = V.m_capacity
     THEN LET new_capacity == GrownCapacity(V.m_capacity) IN
          /\ Fits(x, new_capacity)
          /\ \E fresh \in NewArray(new_capacity, V.m_end + 1) :
               LET new_storage == NewId(mem)
                   old == Data(x)
                   filled == [j \in 1..new_capacity |->
                                IF j <= idx THEN old[j]
                                ELSE IF j = idx + 1 THEN value
                                ELSE IF j <= V.m_end + 1 THEN old[j - 1]
                                ELSE fresh[j]]
               IN /\ mem' = Delete(Alloc(mem, new_storage, filled), V.m_storage)
                  /\ vec' = SetVec(x, V.m_end + 1, new_capacity, new_storage)
                  /\ last' = Call("insert", x, idx, 0, TRUE, Iter(new_storage, idx))
     ELSE /\ mem' = [mem EXCEPT ![V.m_storage].data =
                       Store(ShiftOne(@, V.m_end, idx), idx, value)]
          /\ vec' = [vec EXCEPT ![x].m_end = V.m_end + 1]
          /\ last' = Call("insert", x, idx, 0, FALSE, Iter(V.m_storage, idx))
  /\ hist' = [phase |-> "inserted", x |-> x, pos |-> index, before |-> Content(x)]
  /\ UNCHANGED status

\* std::copy(first_, last_, storage + index)
CopyRange(data, range, index) ==
  [j \in 1..Len(data) |->
     IF index < j /\ j <= index + Len(range) THEN range[j - index] ELSE data[j]]

\* for (size_type i = m_end - 1; i >= index; --i)
\*   m_storage[i + num_elements] = m_storage[i];
\* with i an unsigned counter: the loop as it runs from the value i, up to the
\* first access outside the buffer (ok = FALSE) or its exit (ok = TRUE).
RECURSIVE ShiftMany(_, _, _, _)
ShiftMany(data, i, index, num_elements) ==
  IF ~(i >= index) THEN [ok |-> TRUE, data |-> data]
  ELSE IF i >= Len(data) \/ Wrap(i + num_elements) >= Len(data)
       THEN [ok |-> FALSE, data |-> data]
       ELSE ShiftMany(Store(data, i + num_elements, data[i + 1]),
                      Wrap(i - 1), index, num_elements)

\* Doubling carried over from the single-element insert.
BulkCapacityDoubled(m_capacity, num_elements) == 2 * m_capacity + num_elements

\* size_type new_capacity = m_capacity + num_elements;
BulkCapacity(m_capacity, num_elements) == m_capacity + num_elements

\* template <typename InputItr>
\* iterator insert(iterator pos_, InputItr first_, InputItr last_), and
\* insert(iterator pos_, initializer_list), which forwards to it.
insert_range(x, index, range) ==
  /\ Running /\ Alive(x) /\ index \in 0..vec[x].m_end
  /\ tally' = Untallied
  /\ hist' = NoHist
  /\ LET V == vec[x]
         pos_ == IterPlus(begin(x), index)
         idx == IterDiff(pos_, begin(x))
         num_elements == Len(range)
     IN
     IF V.m_end + num_elements > V.m_capacity
     THEN LET new_capacity == BulkCapacity(V.m_capacity, num_elements) IN
          /\ Fits(x, new_capacity)
          /\ \E fresh \in NewArray(new_capacity, V.m_end + num_elements) :
               LET new_storage == NewId(mem)
                   old == Data(x)
                   filled == [j \in 1..new_capacity |->
                                IF j <= idx THEN old[j]
                                ELSE IF j <= idx + num_elements THEN range[j - idx]
                                ELSE IF j <= V.m_end + num_elements
                                     THEN old[j - num_elements]
                                ELSE fresh[j]]
               IN /\ mem' = Delete(Alloc(mem, new_storage, filled), V.m_storage)
                  /\ vec' = SetVec(x, V.m_end + num_elements, new_capacity, new_storage)
                  /\ last' = Call("insert_range", x, idx, Len(range), TRUE, Iter(new_storage, idx))
          /\ UNCHANGED status
     ELSE LET shifted == ShiftMany(Data(x), Wrap(V.m_end - 1), idx, num_elements) IN
          IF shifted.ok
          THEN /\ mem' = [mem EXCEPT ![V.m_storage].data =
                            CopyRange(shifted.data, range, idx)]
               /\ vec' = [vec EXCEPT ![x].m_end = V.m_end + num_elements]
               /\ last' = Call("insert_range", x, idx, Len(range), FALSE, Iter(V.m_storage, idx))
               /\ UNCHANGED status
          \* The counter has wrapped around below zero and the loop reads and
          \* writes outside the buffer without ever exiting: the call does
          \* not return.
          ELSE /\ mem' = [mem EXCEPT ![V.m_storage].data = shifted.data]
               /\ last' = Call("insert_range", x, idx, Len(range), FALSE, NullIter)
               /\ status' = "crashed"
               /\ UNCHANGED vec

\* reserve that enlarges the array where it is.
reserve_in_place(x, new_capacity) ==
  /\ Running /\ Alive(x)
  /\ tally' = Untallied
  /\ LET V == vec[x] IN
     IF new_capacity > V.m_capacity
     THEN /\ Fits(x, new_capacity)
          /\ \E fresh \in NewArray(new_capacity, V.m_end) :
               /\ mem' = Alloc(mem, V.m_storage, CopyPrefix(fresh, Data(x), V.m_end))
               /\ vec' = SetVec(x, V.m_end, new_capacity, V.m_storage)
          /\ last' = Call("reserve", x, new_capacity, 0, TRUE, NullIter)
     ELSE /\ UNCHANGED <<vec, mem>>
          /\ last' = Call("reserve", x, new_capacity, 0, FALSE, NullIter)
  /\ hist' = NoHist
  /\ UNCHANGED status

\* reserve that also reallocates when asked for the capacity it has.
reserve_on_equal(x, new_capacity) ==
  /\ Running /\ Alive(x)
  /\ tally' = Untallied
  /\ LET V == vec[x] IN
     IF new_capacity >= V.m_capacity
     THEN /\ Fits(x, new_capacity)
          /\ \E fresh \in NewArray(new_capacity, V.m_end) :
               LET new_storage == NewId(mem)
                   m1 == Alloc(mem, new_storage, CopyPrefix(fresh, Data(x), V.m_end))
               IN /\ mem' = Delete(m1, V.m_storage)
                  /\ vec' = SetVec(x, V.m_end, new_capacity, new_storage)
          /\ last' = Call("reserve", x, new_capacity, 0, TRUE, NullIter)
     ELSE /\ UNCHANGED <<vec, mem>>
          /\ last' = Call("reserve", x, new_capacity, 0, FALSE, NullIter)
  /\ hist' = NoHist
  /\ UNCHANGED status

\* void reserve(size_type new_capacity)
reserve(x, new_capacity) ==
  /\ Running /\ Alive(x)
  /\ tally' = Untallied
  /\ LET V == vec[x] IN
     IF new_capacity > V.m_capacity
     THEN /\ Fits(x, new_capacity)
          /\ \E fresh \in NewArray(new_capacity, V.m_end) :
               LET new_storage == NewId(mem)
                   m1 == Alloc(mem, new_storage, CopyPrefix(fresh, Data(x), V.m_end))
               IN /\ mem' = Delete(m1, V.m_storage)
                  /\ vec' = SetVec(x, V.m_end, new_capacity, new_storage)
          /\ last' = Call("reserve", x, new_capacity, 0, TRUE, NullIter)
     ELSE /\ UNCHANGED <<vec, mem>>
          /\ last' = Call("reserve", x, new_capacity, 0, FALSE, NullIter)
  /\ hist' = NoHist
  /\ UNCHANGED status

\* shrink_to_fit that never goes below one slot.
shrink_to_fit_keep_one(x) ==
  /\ Running /\ Alive(x)
  /\ tally' = Untallied
  /\ LET V == vec[x] IN
     IF V.m_end < V.m_capacity
     THEN /\ \E fresh \in NewArray(IF V.m_end = 0 THEN 1 ELSE V.m_end, V.m_end) :
               LET new_storage == NewId(mem)
                   m1 == Alloc(mem, new_storage, CopyPrefix(fresh, Data(x), V.m_end))
               IN /\ mem' = Delete(m1, V.m_storage)
                  /\ vec' = SetVec(x, V.m_end, IF V.m_end = 0 THEN 1 ELSE V.m_end, new_storage)
          /\ last' = Call("shrink_to_fit", x, 0, 0, TRUE, NullIter)
     ELSE /\ UNCHANGED <<vec, mem>>
          /\ last' = Call("shrink_to_fit", x, 0, 0, FALSE, NullIter)
  /\ hist' = NoHist
  /\ UNCHANGED status

\* void shrink_to_fit()
shrink_to_fit(x) ==
  /\ Running /\ Alive(x)
  /\ tally' = Untallied
  /\ LET V == vec[x] IN
     IF V.m_end < V.m_capacity
     THEN /\ \E fresh \in NewArray(V.m_end, V.m_end) :
               LET new_storage == NewId(mem)
                   m1 == Alloc(mem, new_storage, CopyPrefix(fresh, Data(x), V.m_end))
               IN /\ mem' = Delete(m1, V.m_storage)
                  /\ vec' = SetVec(x, V.m_end, V.m_end, new_storage)
          /\ last' = Call("shrink_to_fit", x, 0, 0, TRUE, NullIter)
     ELSE /\ UNCHANGED <<vec, mem>>
          /\ last' = Call("shrink_to_fit", x, 0, 0, FALSE, NullIter)
  /\ hist' = NoHist
  /\ UNCHANGED status

\* assign(count, value) that reallocates to count whenever the capacity differs.
assign_fill_exact(x, count_, value_) ==
  /\ Running /\ Alive(x)
  /\ tally' = Untallied
  /\ LET V == vec[x]
         fill(data) == [j \in 1..Len(data) |-> IF j <= count_ THEN value_ ELSE data[j]]
     IN
     IF count_ # V.m_capacity
     THEN /\ Fits(x, count_)
          /\ \E fresh \in NewArray(count_, count_) :
               LET newStorage == NewId(mem)
                   m1 == Alloc(mem, newStorage,
                               fill(fresh))
               IN /\ mem' = Delete(m1, V.m_storage)
                  /\ vec' = SetVec(x, count_, count_, newStorage)
          /\ last' = Call("assign_fill", x, count_, 0, TRUE, NullIter)
     ELSE /\ mem' = [mem EXCEPT ![V.m_storage].data = fill(@)]
          /\ vec' = [vec EXCEPT ![x].m_end = count_]
          /\ last' = Call("assign_fill", x, count_, 0, FALSE, NullIter)
  /\ hist' = NoHist
  /\ UNCHANGED status

\* void assign(size_type count_, const_reference value_)
assign_fill(x, count_, value_) ==
  /\ Running /\ Alive(x)
  /\ tally' = Untallied
  /\ LET V == vec[x]
         fill(data) == [j \in 1..Len(data) |-> IF j <= count_ THEN value_ ELSE data[j]]
     IN
     IF count_ > V.m_capacity
     THEN /\ Fits(x, count_)
          /\ \E fresh \in NewArray(count_, count_) :
               LET newStorage == NewId(mem)
                   m1 == Alloc(mem, newStorage,
                               fill(CopyPrefix(fresh, Data(x), V.m_end)))
               IN /\ mem' = Delete(m1, V.m_storage)
                  /\ vec' = SetVec(x, count_, count_, newStorage)
          /\ last' = Call("assign_fill", x, count_, 0, TRUE, NullIter)
     ELSE /\ mem' = [mem EXCEPT ![V.m_storage].data = fill(@)]
          /\ vec' = [vec EXCEPT ![x].m_end = count_]
          /\ last' = Call("assign_fill", x, count_, 0, FALSE, NullIter)
  /\ hist' = NoHist
  /\ UNCHANGED status

\* void assign(const std::initializer_list<T>& ilist)
assign_ilist(x, ilist) ==
  /\ Running /\ Alive(x)
  /\ tally' = Untallied
  /\ LET V == vec[x] IN
     IF Len(ilist) > V.m_capacity
     THEN /\ Fits(x, Len(ilist))
          /\ \E fresh \in NewArray(Len(ilist), Len(ilist)) :
               LET newStorage == NewId(mem)
                   m1 == Alloc(mem, newStorage, CopyRange(fresh, ilist, 0))
               IN /\ mem' = Delete(m1, V.m_storage)
                  /\ vec' = SetVec(x, Len(ilist), Len(ilist), newStorage)
          /\ last' = Call("assign_ilist", x, 0, Len(ilist), TRUE, NullIter)
     ELSE /\ mem' = [mem EXCEPT ![V.m_storage].data = CopyRange(@, ilist, 0)]
          /\ vec' = [vec EXCEPT ![x].m_end = Len(ilist)]
          /\ last' = Call("assign_ilist", x, 0, Len(ilist), FALSE, NullIter)
  /\ hist' = NoHist
  /\ UNCHANGED status

\* template <typename InputItr> void assign(InputItr first, InputItr last)
assign_range(x, range) ==
  /\ Running /\ Alive(x)
  /\ tally' = Untallied
  /\ LET V == vec[x]
         count == Len(range)
     IN
     IF count > V.m_capacity
     THEN /\ Fits(x, count)
          /\ \E fresh \in NewArray(count, count) :
               LET newStorage == NewId(mem)
                   m1 == Alloc(mem, newStorage, CopyRange(fresh, range, 0))
               IN /\ mem' = Delete(m1, V.m_storage)
                  /\ vec' = SetVec(x, count, count, newStorage)
          /\ last' = Call("assign_range", x, 0, Len(range), TRUE, NullIter)
     ELSE /\ mem' = [mem EXCEPT ![V.m_storage].data = CopyRange(@, range, 0)]
          /\ vec' = [vec EXCEPT ![x].m_end = count]
          /\ last' = Call("assign_range", x, 0, Len(range), FALSE, NullIter)
  /\ hist' = NoHist
  /\ UNCHANGED status

\* The move that only computes where it would end, moving nothing.
MoveRangeNoCopy(data, first, last_, d_first) ==
  [data |-> data, out |-> d_first + (last_ - first)]

\* The move run back to front (std::move_backward's order on a forward move).
RECURSIVE MoveRangeBackward(_, _, _, _)
MoveRangeBackward(data, first, last_, d_first) ==
  IF first = last_ THEN [data |-> data, out |-> d_first]
  ELSE LET rest == MoveRangeBackward(
                     Store(data, d_first + (last_ - 1 - first), data[last_]),
                     first, last_ - 1, d_first)
       IN [data |-> rest.data, out |-> d_first + (last_ - first)]

\* std::move(first, last, d_first) over one buffer: each element of
\* [first, last) is assigned, front to back, to the slots from d_first on; the
\* result is the data and the slot after the last one written.
RECURSIVE MoveRange(_, _, _, _)
MoveRange(data, first, last_, d_first) ==
  IF first = last_ THEN [data |-> data, out |-> d_first]
  ELSE MoveRange(Store(data, d_first, data[first + 1]), first + 1, last_, d_first + 1)

\* iterator erase(iterator first, iterator last), the two at slots f and l
erase_range(x, f, l) ==
  /\ Running /\ Alive(x) /\ f \in 0..vec[x].m_end /\ l \in f..vec[x].m_end
  /\ tally' = Untallied
  /\ LET V == vec[x]
         first == IterPlus(begin(x), f)
         last_ == IterPlus(begin(x), l)
         numElementsToRemove == IterDiff(last_, first)
         moved == MoveRange(Data(x), last_.idx, end(x).idx, first.idx)
         newEnd == Iter(first.buf, moved.out)
     IN /\ mem' = [mem EXCEPT ![V.m_storage].data = moved.data]
        /\ vec' = [vec EXCEPT ![x].m_end = Wrap(V.m_end - numElementsToRemove)]
        /\ last' = Call("erase_range", x, f, l, FALSE, newEnd)
  /\ hist' = NoHist
  /\ UNCHANGED status

\* iterator erase(iterator pos), pos at slot p
erase(x, p) ==
  /\ Running /\ Alive(x) /\ p \in 0..(vec[x].m_end - 1)
  /\ tally' = Untallied
  /\ LET V == vec[x]
         pos == IterPlus(begin(x), p)
         moved == MoveRange(Data(x), IterPlus(pos, 1).idx, end(x).idx, pos.idx)
         newEnd == Iter(pos.buf, moved.out)
     IN /\ mem' = [mem EXCEPT ![V.m_storage].data = moved.data]
        /\ vec' = [vec EXCEPT ![x].m_end = Wrap(V.m_end - 1)]
        /\ last' = Call("erase", x, p, 0, FALSE, newEnd)
  /\ hist' = IF hist.phase = "inserted" /\ hist.x = x /\ hist.pos = p
             THEN [hist EXCEPT !.phase = "erased"]
             ELSE NoHist
  /\ UNCHANGED status

\* Observer of a swap followed by a swap of the same two vectors: the members
\* of every vector before the first of the two.
Swapped(first_, second_) ==
  IF first_ = second_ THEN NoHist
  ELSE IF hist.phase = "swapped" /\ hist.x \in {first_, second_}
       THEN [hist EXCEPT !.phase = "swapped_twice"]
       ELSE [phase |-> "swapped", x |-> first_, pos |-> 0, before |-> vec]

\* swap that exchanges the sizes and capacities and forgets the pointers.
swap_sizes_only(first_, second_) ==
  /\ Running /\ Alive(first_) /\ Alive(second_)
  /\ tally' = Untallied
  /\ vec' = [vec EXCEPT ![first_].m_end = vec[second_].m_end,
                        ![first_].m_capacity = vec[second_].m_capacity,
                        ![second_].m_end = vec[first_].m_end,
                        ![second_].m_capacity = vec[first_].m_capacity]
  /\ last' = Call("swap", first_, 0, 0, FALSE, NullIter)
  /\ hist' = Swapped(first_, second_)
  /\ UNCHANGED <<mem, status>>

\* friend void swap(vector<T>& first_, vector<T>& second_)
swap(first_, second_) ==
  /\ Running /\ Alive(first_) /\ Alive(second_)
  /\ tally' = Untallied
  /\ vec' = [vec EXCEPT ![first_] = vec[second_], ![second_] = vec[first_]]
  /\ last' = Call("swap", first_, 0, 0, FALSE, NullIter)
  /\ hist' = Swapped(first_, second_)
  /\ UNCHANGED <<mem, status>>

\* ----------------------------------------------------------------- queries
\* Equality that also asks for equal capacities.
EqualWithCapacity(lhs, rhs) ==
  /\ capacity(lhs) = capacity(rhs)
  /\ size(lhs) = size(rhs)
  /\ \A j \in 1..size(lhs) : Data(lhs)[j] = Data(rhs)[j]

\* for (i = 0; i < lhs.size(); ++i) if (lhs[i] != rhs[i]) return false;
\* return true;   -- the loop as it runs from the value i
RECURSIVE EqualFrom(_, _, _)
EqualFrom(lhs, rhs, i) ==
  IF ~(i < size(lhs)) THEN TRUE
  ELSE IF Data(lhs)[i + 1] # Data(rhs)[i + 1] THEN FALSE
       ELSE EqualFrom(lhs, rhs, i + 1)

\* bool operator==(const vector<T>& lhs, const vector<T>& rhs)
Equal(lhs, rhs) ==
  IF size(lhs) # size(rhs) THEN FALSE ELSE EqualFrom(lhs, rhs, 0)

\* bool operator!=(const vector<T>& lhs, const vector<T>& rhs)
NotEqual(lhs, rhs) == ~Equal(lhs, rhs)

\* A call of operator==: it changes nothing and returns Equal.
operator_eq(lhs, rhs) ==
  /\ Running /\ Alive(lhs) /\ Alive(rhs)
  /\ tally' = Untallied
  /\ last' = Query("operator==", lhs, rhs, 0, Returned(Equal(lhs, rhs)))
  /\ hist' = NoHist
  /\ UNCHANGED <<vec, mem, status>>

\* A call of operator!=
operator_ne(lhs, rhs) ==
  /\ Running /\ Alive(lhs) /\ Alive(rhs)
  /\ tally' = Untallied
  /\ last' = Query("operator!=", lhs, rhs, 0, Returned(NotEqual(lhs, rhs)))
  /\ hist' = NoHist
  /\ UNCHANGED <<vec, mem, status>>

\* throw std::out_of_range("Index out of range")
OutOfRange == [thrown |-> TRUE, value |-> 0]

\* at() that brings an index past the end back to the last element.
at_clamped(x, idx) ==
  /\ Running /\ Alive(x)
  /\ tally' = Untallied
  /\ last' = Query("at", x, x, idx,
                   IF vec[x].m_end = 0 THEN OutOfRange
                   ELSE IF idx >= vec[x].m_end THEN Returned(Data(x)[vec[x].m_end])
                        ELSE Returned(Data(x)[idx + 1]))
  /\ hist' = NoHist
  /\ UNCHANGED <<vec, mem, status>>

\* reference at(size_type idx), const and non-const
at(x, idx) ==
  /\ Running /\ Alive(x)
  /\ tally' = Untallied
  /\ last' = Query("at", x, x, idx,
                   IF idx >= vec[x].m_end THEN OutOfRange
                   ELSE Returned(Data(x)[idx + 1]))
  /\ hist' = NoHist
  /\ UNCHANGED <<vec, mem, status>>

\* Every iterator value: the default one and a pointer to a slot of a buffer.
Iterators == {NullIter} \cup {Iter(b, i) : b \in BufIds, i \in 0..MaxHeap}

\* The iterators a caller holds on x: the default one and begin() + i for
\* every live element i.
Iters(x) == {NullIter} \cup {IterPlus(begin(x), i) : i \in 0..(vec[x].m_end - 1)}

\* assert(cond) of <cassert>: the process goes on if cond holds and is
\* aborted if not.
Asserted(cond) == IF cond THEN "ok" ELSE "aborted"

\* A call of a query on x that is guarded by assert(cond): it returns res if
\* cond holds and nothing if not.
Guarded(op, x, pos, it, cond, res) ==
  /\ tally' = Untallied
  /\ status' = Asserted(cond)
  /\ last' = [Query(op, x, x, pos, IF cond THEN res ELSE NoRes) EXCEPT !.ret = it]
  /\ hist' = NoHist
  /\ UNCHANGED <<vec, mem>>

\* operator[] with the assertion compiled out: past the end it reads
\* whatever the slot holds.
operator_index_unchecked(x, idx) ==
  /\ Running /\ Alive(x)
  /\ \E v \in Val :
       Guarded("operator[]", x, idx, NullIter, TRUE,
               Returned(IF idx < vec[x].m_capacity THEN Data(x)[idx + 1] ELSE v))

\* reference operator[](size_type idx), const and non-const
operator_index(x, idx) ==
  /\ Running /\ Alive(x)
  /\ Guarded("operator[]", x, idx, NullIter, idx < vec[x].m_end,
             Returned(IF idx < vec[x].m_end THEN Data(x)[idx + 1] ELSE 0))

\* reference front(), const and non-const
front(x) ==
  /\ Running /\ Alive(x)
  /\ Guarded("front", x, 0, NullIter, vec[x].m_end > 0,
             Returned(IF vec[x].m_end > 0 THEN Data(x)[1] ELSE 0))

\* reference back(), const and non-const
back(x) ==
  /\ Running /\ Alive(x)
  /\ Guarded("back", x, 0, NullIter, vec[x].m_end > 0,
             Returned(IF vec[x].m_end > 0 THEN Data(x)[vec[x].m_end] ELSE 0))

\* reference operator*() const, on an iterator held on x
operator_deref(x, it) ==
  /\ Running /\ Alive(x) /\ it \in Iters(x)
  /\ Guarded("operator*", x, it.idx, it, it.buf # NULL,
             Returned(IF it.buf # NULL THEN mem[it.buf].data[it.idx + 1] ELSE 0))

\* pointer operator->() const, on an iterator held on x: it returns m_ptr
operator_arrow(x, it) ==
  /\ Running /\ Alive(x) /\ it \in Iters(x)
  /\ Guarded("operator->", x, it.idx, it, it.buf # NULL, NoRes)

\* ------------------------------------------------------ iterator arithmetic
MaxIter == 3

\* operator+(difference_type offset, iterator it)
OffsetPlus(offset, it) == Iter(it.buf, it.idx + offset)

\* operator- that moves the pointer forward.
IterMinusForward(it, offset) == Iter(it.buf, it.idx + offset)

\* operator-(iterator it, difference_type offset)
IterMinus(it, offset) == Iter(it.buf, it.idx - offset)

\* bool operator==(const iterator&) const: the two pointers are equal
IterEq(ita, itb) == ita.buf = itb.buf /\ ita.idx = itb.idx

\* What ++ and -- do to an iterator: self is the operand after the call,
\* value the iterator returned.
\* iterator operator++(void)
PreIncrement(it) ==
  LET moved == Iter(it.buf, it.idx + 1) IN [self |-> moved, value |-> moved]

\* Post-increment that returns the operand after it has moved.
PostIncrementMoved(it) ==
  LET moved == Iter(it.buf, it.idx + 1) IN [self |-> moved, value |-> moved]

\* iterator operator++(int)
PostIncrement(it) ==
  LET original == it IN [self |-> Iter(it.buf, it.idx + 1), value |-> original]

\* iterator operator--(void)
PreDecrement(it) ==
  LET moved == Iter(it.buf, it.idx - 1) IN [self |-> moved, value |-> moved]

\* iterator operator--(int)
PostDecrement(it) ==
  LET original == it IN [self |-> Iter(it.buf, it.idx - 1), value |-> original]

\* The iterators a caller holds on x for arithmetic: the default one and
\* every position from begin() to end().
Positions(x) == {NullIter} \cup {IterPlus(begin(x), i) : i \in 0..vec[x].m_end}

\* An iterator is moved only within [begin(), end()] of x.
Within(x, it) == it.buf = vec[x].m_storage /\ it.idx \in 0..vec[x].m_end

\* A call of an iterator operator on operand it, guarded by assert(cond):
\* pos is where the operand was, n the offset (for ++ and --, where the
\* operand is after the call), ret the iterator returned and res the
\* difference returned.
IterCall(op, x, it, n, cond, ret, res) ==
  /\ tally' = Untallied
  /\ status' = Asserted(cond)
  /\ last' = [Query(op, x, x, it.idx, IF cond THEN res ELSE NoRes)
                EXCEPT !.n = IF cond THEN n ELSE 0,
                       !.ret = IF cond THEN ret ELSE NullIter]
  /\ hist' = NoHist
  /\ UNCHANGED <<vec, mem>>

\* it + offset
operator_plus(x, it, offset) ==
  /\ Running /\ Alive(x) /\ it \in Positions(x)
  /\ it # NullIter => Within(x, IterPlus(it, offset))
  /\ IterCall("it+n", x, it, offset, it.buf # NULL, IterPlus(it, offset), NoRes)

\* offset + it
operator_plus_offset(x, offset, it) ==
  /\ Running /\ Alive(x) /\ it \in Positions(x)
  /\ it # NullIter => Within(x, OffsetPlus(offset, it))
  /\ IterCall("n+it", x, it, offset, it.buf # NULL, OffsetPlus(offset, it), NoRes)

\* it - offset
operator_minus(x, it, offset) ==
  /\ Running /\ Alive(x) /\ it \in Positions(x)
  /\ it # NullIter => Within(x, IterMinus(it, offset))
  /\ IterCall("it-n", x, it, offset, it.buf # NULL, IterMinus(it, offset), NoRes)

\* ita - itb: n is where itb points
operator_diff(x, ita, itb) ==
  /\ Running /\ Alive(x) /\ ita \in Positions(x) /\ itb \in Positions(x)
  /\ IterCall("a-b", x, ita, itb.idx, ita.buf # NULL /\ itb.buf # NULL,
              itb, Returned(IterDiff(ita, itb)))

\* ++it
pre_increment(x, it) ==
  /\ Running /\ Alive(x) /\ it \in Positions(x)
  /\ it # NullIter => Within(x, PreIncrement(it).self)
  /\ IterCall("++it", x, it, PreIncrement(it).self.idx, it.buf # NULL,
              PreIncrement(it).value, NoRes)

\* it++
post_increment(x, it) ==
  /\ Running /\ Alive(x) /\ it \in Positions(x)
  /\ it # NullIter => Within(x, PostIncrement(it).self)
  /\ IterCall("it++", x, it, PostIncrement(it).self.idx, it.buf # NULL,
              PostIncrement(it).value, NoRes)

\* --it
pre_decrement(x, it) ==
  /\ Running /\ Alive(x) /\ it \in Positions(x)
  /\ it # NullIter => Within(x, PreDecrement(it).self)
  /\ IterCall("--it", x, it, PreDecrement(it).self.idx, it.buf # NULL,
              PreDecrement(it).value, NoRes)

\* it--
post_decrement(x, it) ==
  /\ Running /\ Alive(x) /\ it \in Positions(x)
  /\ it # NullIter => Within(x, PostDecrement(it).self)
  /\ IterCall("it--", x, it, PostDecrement(it).self.idx, it.buf # NULL,
              PostDecrement(it).value, NoRes)

\* ------------------------------------------------------ allocation failure
\* new T[n] throws std::bad_alloc: the call op on x ends there and leaves
\* the vectors as v and the heap as m.
Throws(op, x, v, m) ==
  /\ tally' = Untallied
  /\ status' = "bad_alloc"
  /\ vec' = v
  /\ mem' = m
  /\ last' = Call(op, x, 0, 0, FALSE, NullIter)
  /\ hist' = NoHist

\* operator= on another vector, its new T[m_capacity] throwing: the buffer
\* is released and the two sizes are overwritten by then, m_storage is not.
assign_op_bad_alloc(x, other) ==
  /\ Running /\ Alive(x) /\ Alive(other) /\ x # other
  /\ Throws("operator= bad_alloc", x,
            [vec EXCEPT ![x].m_capacity = vec[other].m_capacity,
                        ![x].m_end = vec[other].m_end],
            Delete(mem, vec[x].m_storage))

\* push_back at full capacity, its new value_type[new_capacity] throwing
push_back_bad_alloc(x) ==
  /\ Running /\ Alive(x) /\ vec[x].m_end = vec[x].m_capacity
  /\ Throws("push_back bad_alloc", x, vec, mem)

\* insert(pos, value) at full capacity, its new throwing
insert_bad_alloc(x) ==
  /\ Running /\ Alive(x) /\ vec[x].m_end = vec[x].m_capacity
  /\ Throws("insert bad_alloc", x, vec, mem)

\* insert(pos, first, last) that has to reallocate, its new throwing
insert_range_bad_alloc(x, range) ==
  /\ Running /\ Alive(x) /\ vec[x].m_end + Len(range) > vec[x].m_capacity
  /\ Throws("insert_range bad_alloc", x, vec, mem)

\* reserve(new_capacity) above the capacity, its new throwing
reserve_bad_alloc(x, new_capacity) ==
  /\ Running /\ Alive(x) /\ new_capacity > vec[x].m_capacity
  /\ Throws("reserve bad_alloc", x, vec, mem)

\* shrink_to_fit() below the capacity, its new throwing
shrink_to_fit_bad_alloc(x) ==
  /\ Running /\ Alive(x) /\ vec[x].m_end < vec[x].m_capacity
  /\ Throws("shrink_to_fit bad_alloc", x, vec, mem)

\* assign(count, value) above the capacity, its new throwing
assign_fill_bad_alloc(x, count_) ==
  /\ Running /\ Alive(x) /\ count_ > vec[x].m_capacity
  /\ Throws("assign_fill bad_alloc", x, vec, mem)

\* assign(ilist) above the capacity, its new throwing
assign_ilist_bad_alloc(x, ilist) ==
  /\ Running /\ Alive(x) /\ Len(ilist) > vec[x].m_capacity
  /\ Throws("assign_ilist bad_alloc", x, vec, mem)

\* assign(first, last) above the capacity, its new throwing
assign_range_bad_alloc(x, range) ==
  /\ Running /\ Alive(x) /\ Len(range) > vec[x].m_capacity
  /\ Throws("assign_range bad_alloc", x, vec, mem)

\* ----------------------------------------------------------- specification
Init ==
  /\ vec = [x \in Vecs |-> NoVec]
  /\ mem = [b \in BufIds |-> NoBuf]
  /\ last = NoCall
  /\ hist = NoHist
  /\ status = "ok"
  /\ tally = NoTally

Next ==
  \E x \in Vecs :
    \/ \E cp \in 0..MaxHeap : ctor_size(x, cp)
    \/ \E il \in Ranges : ctor_ilist(x, il)
    \/ dtor(x)
    \/ clear(x)
    \/ \E range \in Ranges : ctor_range(x, range)
    \/ \E other \in Vecs : ctor_copy(x, other)
    \/ \E other \in Vecs : assign_op(x, other)
    \/ \E value \in Val : push_back(x, value)
    \/ pop_back(x)
    \/ \E index \in 0..MaxHeap, value \in Val : insert(x, index, value)
    \/ \E index \in 0..MaxHeap, range \in Ranges : insert_range(x, index, range)
    \/ \E new_capacity \in 0..MaxHeap : reserve(x, new_capacity)
    \/ shrink_to_fit(x)
    \/ \E count_ \in 0..MaxHeap, value_ \in Val : assign_fill(x, count_, value_)
    \/ \E ilist \in Ranges : assign_ilist(x, ilist)
    \/ \E range \in Ranges : assign_range(x, range)
    \/ \E f \in 0..MaxHeap, l \in 0..MaxHeap : erase_range(x, f, l)
    \/ \E p \in 0..MaxHeap : erase(x, p)
    \/ \E second_ \in Vecs : swap(x, second_)

Spec == Init /\ [][Next]_vars

\* The run that counts reallocations: one vector, default-constructed, and
\* push_backs on it over a heap of MaxGrow slots.
InitGrowth ==
  /\ vec = [x \in Vecs |-> NoVec]
  /\ mem = [b \in BufIds |-> NoBuf]
  /\ last = NoCall
  /\ hist = NoHist
  /\ status = "ok"
  /\ tally = [NoTally EXCEPT !.heap = MaxGrow]

NextGrowth ==
  \/ ctor_size("a", 0)
  \/ \E value \in Val : push_back("a", value)

SpecGrowth == InitGrowth /\ [][NextGrowth]_vars

\* The queries, applied to every pair of vectors of capacity up to MaxObs: any
\* length within the capacity, any values in the live and in the dead slots.
InitObs ==
  \E ca \in 0..MaxObs, cb \in 0..MaxObs :
    \E ea \in 0..ca, eb \in 0..cb :
      \E da \in [1..ca -> Val], db \in [1..cb -> Val] :
        /\ vec = [x \in Vecs |->
                    IF x = "a"
                    THEN [alive |-> TRUE, m_end |-> ea, m_capacity |-> ca, m_storage |-> 1]
                    ELSE [alive |-> TRUE, m_end |-> eb, m_capacity |-> cb, m_storage |-> 2]]
        /\ mem = [b \in BufIds |->
                    IF b = 1 THEN [live |-> TRUE, data |-> [j \in 1..ca |-> da[j]]]
                    ELSE IF b = 2 THEN [live |-> TRUE, data |-> [j \in 1..cb |-> db[j]]]
                    ELSE NoBuf]
        /\ last = NoCall
        /\ hist = NoHist
        /\ status = "ok"
        /\ tally = NoTally

\* The indexes at() and operator[] are called with: inside, at and past the capacity, and
\* the largest size_type.
AtArgs == (0..(MaxObs + 1)) \cup {SizeModulus - 1}

NextObs ==
  \E x \in Vecs :
    \/ \E rhs \in Vecs : operator_eq(x, rhs)
    \/ \E rhs \in Vecs : operator_ne(x, rhs)
    \/ \E idx \in AtArgs : at(x, idx)
    \/ \E idx \in AtArgs : operator_index(x, idx)
    \/ front(x)
    \/ back(x)
    \/ \E it \in Iterators : operator_deref(x, it)
    \/ \E it \in Iterators : operator_arrow(x, it)

SpecObs == InitObs /\ [][NextObs]_vars

\* The iterator operators, applied to the iterators of one vector of
\* capacity up to MaxIter, with offsets that keep them in [begin(), end()].
InitIter ==
  \E c \in 0..MaxIter :
    \E e \in 0..c :
      \E d \in [1..c -> Val] :
        /\ vec = [x \in Vecs |->
                    IF x = "a"
                    THEN [alive |-> TRUE, m_end |-> e, m_capacity |-> c, m_storage |-> 1]
                    ELSE NoVec]
        /\ mem = [b \in BufIds |->
                    IF b = 1 THEN [live |-> TRUE, data |-> [j \in 1..c |-> d[j]]]
                    ELSE NoBuf]
        /\ last = NoCall
        /\ hist = NoHist
        /\ status = "ok"
        /\ tally = NoTally

Offsets == (0 - MaxIter)..MaxIter

NextIter ==
  \E it \in Iterators :
    \/ \E offset \in Offsets : operator_plus("a", it, offset)
    \/ \E offset \in Offsets : operator_plus_offset("a", offset, it)
    \/ \E offset \in Offsets : operator_minus("a", it, offset)
    \/ \E itb \in Iterators : operator_diff("a", it, itb)
    \/ pre_increment("a", it)
    \/ post_increment("a", it)
    \/ pre_decrement("a", it)
    \/ post_decrement("a", it)

SpecIter == InitIter /\ [][NextIter]_vars

\* Vectors that are constructed, grown, shrunk and destroyed, and on which
\* any call that allocates may find no memory.
NextAlloc ==
  \E x \in Vecs :
    \/ \E cp \in 0..MaxHeap : ctor_size(x, cp)
    \/ \E il \in Ranges : ctor_ilist(x, il)
    \/ dtor(x)
    \/ \E value \in Val : push_back(x, value)
    \/ pop_back(x)
    \/ \E other \in Vecs : assign_op_bad_alloc(x, other)
    \/ push_back_bad_alloc(x)
    \/ insert_bad_alloc(x)
    \/ \E range \in Ranges : insert_range_bad_alloc(x, range)
    \/ \E new_capacity \in 0..MaxHeap : reserve_bad_alloc(x, new_capacity)
    \/ shrink_to_fit_bad_alloc(x)
    \/ \E count_ \in 0..MaxHeap : assign_fill_bad_alloc(x, count_)
    \/ \E ilist \in Ranges : assign_ilist_bad_alloc(x, ilist)
    \/ \E range \in Ranges : assign_range_bad_alloc(x, range)

SpecAlloc == Init /\ [][NextAlloc]_vars

\* ------------------------------------------------------------------ claims
Max(m, n) == IF m >= n THEN m ELSE n
Indexes == 0..MaxHeap

\* The call a step makes is recorded in last': its name, its object and its
\* position arguments.
Did(op) == last'.op = op
Obj(x) == last'.x = x
At(pos) == last'.pos = pos
Upper(n) == last'.n = n

\* old[0..i) and old[i..Len) of a sequence, by slot index
Upto(seq, i) == SubSeq(seq, 1, i)
From(seq, i) == SubSeq(seq, i + 1, Len(seq))

\* C1: in every reachable state, every constructed vector has
\* 0 <= length <= capacity.
C1_LengthWithinCapacity ==
  \A x \in Vecs : Alive(x) => 0 <= vec[x].m_end /\ vec[x].m_end <= vec[x].m_capacity

\* An erase has left a vector with live elements and spare capacity.
C1_Witness ==
  /\ last.op = "erase_range" /\ last.n > last.pos
  /\ \E x \in Vecs : Alive(x) /\ 0 < vec[x].m_end /\ vec[x].m_end < vec[x].m_capacity

\* C2: insert(pos, v) with 0 <= pos <= length, reallocating or in place,
\* leaves old[0..pos), v, old[pos..length), grows the length by one and
\* returns an iterator to slot pos of the vector's current buffer.
C2_InsertPlacesValue ==
  [][Did("insert") =>
       \A x \in Vecs : Obj(x) =>
       \A index \in Indexes : At(index) =>
       \A value \in Val : insert(x, index, value) =>
         /\ Content(x)' = Upto(Content(x), index) \o <<value>> \o From(Content(x), index)
         /\ size(x)' = size(x) + 1
         /\ last'.ret = Iter(vec'[x].m_storage, index)
         /\ Data(x)'[last'.ret.idx + 1] = value]_vars

\* A reallocating insert in the middle of a full two-element vector.
C2_Witness ==
  /\ last.op = "insert" /\ last.realloc /\ last.pos = 1
  /\ \E x \in Vecs : /\ Alive(x) /\ size(x) = 3 /\ capacity(x) = 4
                     /\ last.ret = Iter(vec[x].m_storage, 1)
                     /\ Content(x) = <<1, 2, 1>>

\* C3: bulk insert(pos, first, last) of k elements, reallocating or in
\* place, returns having left old[0..pos), the k elements, old[pos..length),
\* the length grown by k, and an iterator to slot pos.
C3_BulkInsertPlacesRange ==
  [][Did("insert_range") =>
       \A x \in Vecs : Obj(x) =>
       \A index \in Indexes : At(index) =>
       \A range \in Ranges : Upper(Len(range)) /\ insert_range(x, index, range) =>
         /\ status' = "ok"
         /\ Content(x)' = Upto(Content(x), index) \o range \o From(Content(x), index)
         /\ size(x)' = size(x) + Len(range)
         /\ last'.ret = Iter(vec'[x].m_storage, index)]_vars

\* C4: erase(first, last) removes exactly [first, last): what is left is
\* old[0..first), old[last..length), the length is k = last - first smaller and
\* the capacity is the same; erase(pos) is the case k = 1.
C4_EraseRemovesRange ==
  [][Did("erase_range") \/ Did("erase") =>
     \A x \in Vecs : Obj(x) =>
     \A f \in Indexes : At(f) =>
     \A l \in Indexes : Upper(l) =>
     /\ Did("erase_range") /\ erase_range(x, f, l) =>
          /\ Content(x)' = Upto(Content(x), f) \o From(Content(x), l)
          /\ size(x)' = size(x) - (l - f)
          /\ capacity(x)' = capacity(x)
     /\ Did("erase") /\ erase(x, f) =>
          /\ Content(x)' = Upto(Content(x), f) \o From(Content(x), f + 1)
          /\ size(x)' = size(x) - 1
          /\ capacity(x)' = capacity(x)]_vars

\* erase(1, 3) on a four-element vector has left its first and last element.
C4_Witness ==
  /\ last.op = "erase_range" /\ last.pos = 1 /\ last.n = 3
  /\ \E x \in Vecs : Alive(x) /\ capacity(x) = 4 /\ Content(x) = <<1, 2>>

\* C5: erase(pos) returns an iterator to slot pos, where the element that
\* followed the erased one now is (end() only if pos was the last element);
\* erase(first, last) returns an iterator to slot first.
C5_EraseReturnsSuccessor ==
  [][Did("erase") \/ Did("erase_range") =>
     \A x \in Vecs : Obj(x) =>
     \A f \in Indexes : At(f) =>
     \A l \in Indexes : Upper(l) =>
     /\ Did("erase") /\ erase(x, f) =>
          /\ last'.ret = Iter(vec'[x].m_storage, f)
          /\ (last'.ret = end(x)' => f = size(x) - 1)
     /\ Did("erase_range") /\ erase_range(x, f, l) =>
          last'.ret = Iter(vec'[x].m_storage, f)]_vars

\* C6: push_back(v) grows the length by one, puts v in slot old_length and
\* leaves the elements of [0, old_length) as they were, with or without a
\* reallocation.
C6_PushBackAppends ==
  [][Did("push_back") =>
       \A x \in Vecs : Obj(x) =>
       \A value \in Val : push_back(x, value) =>
         /\ size(x)' = size(x) + 1
         /\ Data(x)'[size(x) + 1] = value
         /\ \A j \in 1..size(x) : Data(x)'[j] = Data(x)[j]]_vars

\* A reallocating push_back onto a full two-element vector.
C6_Witness ==
  /\ last.op = "push_back" /\ last.realloc
  /\ \E x \in Vecs : Alive(x) /\ size(x) = 3 /\ Content(x) = <<1, 2, 2>>

\* C7: push_back(v) and insert(pos, v) change the capacity exactly when
\* length = capacity before the call, to max(1, 2 * capacity); from the empty
\* vector, three push_backs give the capacities 1, 2, 4.
C7_SingleGrowth ==
  [][Did("push_back") \/ Did("insert") =>
       \A x \in Vecs : Obj(x) =>
       \A index \in Indexes : At(index) =>
       \A value \in Val :
       /\ ( \/ Did("push_back") /\ push_back(x, value)
            \/ Did("insert") /\ insert(x, index, value) ) =>
            /\ (capacity(x)' # capacity(x)) = (size(x) = capacity(x))
            /\ size(x) = capacity(x) => capacity(x)' = Max(1, 2 * capacity(x))
       /\ Did("push_back") /\ push_back(x, value) /\ size(x) = capacity(x) =>
            /\ size(x) = 0 => capacity(x)' = 1
            /\ size(x) = 1 => capacity(x)' = 2
            /\ size(x) = 2 => capacity(x)' = 4 /\ size(x)' = 3]_vars

\* The third push_back onto an initially empty vector: length 3, capacity 4.
C7_Witness ==
  /\ last.op = "push_back" /\ last.realloc
  /\ \E x \in Vecs : Alive(x) /\ size(x) = 3 /\ capacity(x) = 4

\* C8: a bulk insert of k elements reallocates exactly when
\* length + k > capacity, to capacity + k; otherwise the capacity and the
\* buffer stay.
C8_BulkGrowth ==
  [][Did("insert_range") =>
       \A x \in Vecs : Obj(x) =>
       \A index \in Indexes : At(index) =>
       \A range \in Ranges : Upper(Len(range)) /\ insert_range(x, index, range) =>
       LET k == Len(range) IN
         /\ last'.realloc = (size(x) + k > capacity(x))
         /\ (vec'[x].m_storage # vec[x].m_storage) = (size(x) + k > capacity(x))
         /\ capacity(x)' = IF size(x) + k > capacity(x)
                           THEN capacity(x) + k ELSE capacity(x)]_vars

\* Two elements inserted into a vector of length 1 and capacity 2: the
\* capacity is 2 + 2, neither doubled to fit nor length + k.
C8_Witness ==
  /\ last.op = "insert_range" /\ last.realloc /\ last.n = 2
  /\ \E x \in Vecs : Alive(x) /\ size(x) = 3 /\ capacity(x) = 4

\* C9: insert(i, v) followed by erase(i) gives back the length and the
\* elements the vector had before the insert.
C9_InsertEraseInverse ==
  hist.phase = "erased" =>
    /\ Alive(hist.x)
    /\ size(hist.x) = Len(hist.before)
    /\ Content(hist.x) = hist.before

\* The round trip at slot 1 of a two-element vector.
C9_Witness ==
  /\ hist.phase = "erased" /\ hist.pos = 1 /\ hist.before = <<1, 2>>
  /\ last.op = "erase" /\ capacity(hist.x) = 4

\* C10: a copy made by the copy constructor or by copy-assignment has the
\* length, the capacity and the elements of its source in a buffer of its
\* own, and no later call on one vector changes the members or the buffer of
\* the other.
C10_CopyIsDeep ==
  [][\A x \in Vecs :
     Obj(x) =>
     /\ \A other \in Vecs \ {x} :
          ( \/ Did("ctor_copy") /\ ctor_copy(x, other)
            \/ Did("assign_op") /\ assign_op(x, other) ) =>
            /\ size(x)' = size(other) /\ capacity(x)' = capacity(other)
            /\ Content(x)' = Content(other)
            /\ vec'[x].m_storage # vec'[other].m_storage
            /\ vec'[other] = vec[other] /\ Data(other)' = Data(other)
     /\ \A y \in Vecs \ {x} :
          Alive(y) /\ ~Did("swap") =>
            /\ vec'[y] = vec[y]
            /\ Data(y)' = Data(y)
            /\ Alive(x)' => vec'[x].m_storage # vec'[y].m_storage]_vars

\* A one-element vector has just been copy-constructed from.
C10_Witness ==
  /\ last.op = "ctor_copy" /\ last.x = "b"
  /\ Content("a") = <<2>> /\ Content("b") = <<2>>
  /\ capacity("b") = capacity("a")
  /\ vec["a"].m_storage # vec["b"].m_storage

\* The second object of the call a step makes.
Other(y) == last'.y = y

\* C11: a == b returns true exactly when the lengths are equal and
\* a[i] = b[i] for every i below the length, whatever the capacities and the
\* dead slots hold, and a != b returns the opposite.
C11_EqualityOverLiveElements ==
  [][Did("operator==") \/ Did("operator!=") =>
       \A lhs \in Vecs : Obj(lhs) =>
       \A rhs \in Vecs : Other(rhs) =>
       LET same == /\ size(lhs) = size(rhs)
                   /\ \A i \in 0..(size(lhs) - 1) : Data(lhs)[i + 1] = Data(rhs)[i + 1]
       IN /\ operator_eq(lhs, rhs) => last'.res = Returned(same)
          /\ operator_ne(lhs, rhs) => last'.res = Returned(~same)]_vars

\* a == b has returned true for two vectors with the same live element, other
\* capacities and a dead slot of b that holds another value.
C11_Witness ==
  /\ last.op = "operator==" /\ last.x = "a" /\ last.y = "b"
  /\ last.res = Returned(TRUE)
  /\ Content("a") = <<1>> /\ Content("b") = <<1>>
  /\ capacity("a") = 1 /\ capacity("b") = 2 /\ Data("b")[2] = 2

\* C12: at(i) with i >= length, i = length included, throws out_of_range and
\* changes no member and no element; with i < length it returns element i;
\* the index is neither clamped nor wrapped.
C12_AtChecksIndex ==
  [][Did("at") =>
       \A x \in Vecs : Obj(x) =>
       \A idx \in AtArgs : At(idx) /\ at(x, idx) =>
         /\ vec' = vec /\ mem' = mem
         /\ idx >= size(x) => last'.res = OutOfRange
         /\ idx < size(x) => last'.res = Returned(Data(x)[idx + 1])]_vars

\* at(length) has thrown on a vector whose capacity is above its length.
C12_Witness ==
  /\ last.op = "at" /\ last.res = OutOfRange
  /\ \E x \in Vecs : /\ last.x = x /\ last.pos = size(x)
                     /\ size(x) = 1 /\ capacity(x) = 2

\* C13: reserve(n) with n > capacity makes the capacity exactly n and keeps
\* the length and the elements; with n <= capacity it changes nothing, the
\* buffer included; the capacity never goes down.
C13_ReserveGrowsOnly ==
  [][Did("reserve") =>
       \A x \in Vecs : Obj(x) =>
       \A new_capacity \in Indexes : At(new_capacity) /\ reserve(x, new_capacity) =>
         /\ size(x)' = size(x) /\ Content(x)' = Content(x)
         /\ new_capacity > capacity(x) => capacity(x)' = new_capacity
         /\ new_capacity <= capacity(x) => vec' = vec /\ mem' = mem
         /\ capacity(x)' >= capacity(x)]_vars

\* reserve(4) has reallocated a vector of two elements.
C13_Witness ==
  /\ last.op = "reserve" /\ last.realloc /\ last.pos = 4
  /\ \E x \in Vecs : /\ last.x = x /\ Alive(x) /\ capacity(x) = 4
                     /\ Content(x) = <<1, 2>>

\* C14: shrink_to_fit() with capacity > length makes the capacity exactly the
\* length, 0 included, and keeps the length and the elements; with
\* capacity = length it changes nothing; a shrink_to_fit right after a
\* shrink_to_fit changes nothing.
C14_ShrinkToLength ==
  [][Did("shrink_to_fit") =>
       \A x \in Vecs : Obj(x) /\ shrink_to_fit(x) =>
         /\ size(x)' = size(x) /\ Content(x)' = Content(x)
         /\ capacity(x) > size(x) => capacity(x)' = size(x)
         /\ capacity(x) = size(x) => vec' = vec /\ mem' = mem
         /\ last.op = "shrink_to_fit" /\ last.x = x => vec' = vec /\ mem' = mem]_vars

\* shrink_to_fit() has taken a vector of three elements from a larger
\* capacity to capacity 3.
C14_Witness ==
  /\ last.op = "shrink_to_fit" /\ last.realloc
  /\ \E x \in Vecs : last.x = x /\ Alive(x) /\ size(x) = 3 /\ capacity(x) = 3

C16_PopBackGuarded ==
  [][Did("pop_back") =>
       \A x \in Vecs : Obj(x) /\ pop_back(x) =>
         /\ status' = "ok"
         /\ mem' = mem
         /\ capacity(x)' = capacity(x)
         /\ size(x) > 0 => /\ size(x)' = size(x) - 1
                            /\ Content(x)' = Upto(Content(x), size(x) - 1)
         /\ size(x) = 0 => vec' = vec]_vars

\* pop_back() on a vector of capacity 0, which can only have been empty.
C16_Witness ==
  /\ last.op = "pop_back"
  /\ \E x \in Vecs : last.x = x /\ Alive(x) /\ size(x) = 0 /\ capacity(x) = 0

\* C17: assign(count, value) leaves length count and value in every slot
\* below count; assign(range) leaves the elements of the range in order;
\* the capacity becomes the new length when that is above the old capacity
\* and stays otherwise, count = 0 included.
C17_AssignReplaces ==
  [][/\ Did("assign_fill") =>
          \A x \in Vecs : Obj(x) =>
          \A count_ \in Indexes : At(count_) =>
          \A value_ \in Val : assign_fill(x, count_, value_) =>
            /\ size(x)' = count_
            /\ \A j \in 1..count_ : Data(x)'[j] = value_
            /\ capacity(x)' = IF count_ > capacity(x) THEN count_ ELSE capacity(x)
     /\ Did("assign_range") \/ Did("assign_ilist") =>
          \A x \in Vecs : Obj(x) =>
          \A range \in Ranges :
            Upper(Len(range)) /\ (assign_range(x, range) \/ assign_ilist(x, range)) =>
            /\ size(x)' = Len(range)
            /\ Content(x)' = range
            /\ capacity(x)' = IF Len(range) > capacity(x) THEN Len(range)
                               ELSE capacity(x)]_vars

\* assign(3, 2) has reallocated a smaller vector to capacity 3.
C17_Witness ==
  /\ last.op = "assign_fill" /\ last.realloc /\ last.pos = 3
  /\ \E x \in Vecs : /\ last.x = x /\ Alive(x) /\ capacity(x) = 3
                     /\ Content(x) = <<2, 2, 2>>

\* C18: swap(a, b) gives each vector the length, the capacity, the buffer and
\* so the elements the other had, copies no element, leaves every buffer
\* with one owner, and done twice gives both vectors back.
C18_SwapExchanges ==
  [][Did("swap") =>
       \A first_ \in Vecs : Obj(first_) =>
       \A second_ \in Vecs : swap(first_, second_) =>
         /\ vec'[first_] = vec[second_] /\ vec'[second_] = vec[first_]
         /\ mem' = mem
         /\ Content(first_)' = Content(second_)
         /\ Content(second_)' = Content(first_)
         /\ \A buf \in BufIds :
              mem'[buf].live =>
                Cardinality({v \in Vecs : vec'[v].alive /\ vec'[v].m_storage = buf}) = 1
         /\ hist'.phase = "swapped_twice" => vec' = hist'.before]_vars

\* Two swaps in a row of vectors that hold <<1>> and <<2>>.
C18_Witness ==
  /\ last.op = "swap" /\ hist.phase = "swapped_twice"
  /\ Content("a") = <<1>> /\ Content("b") = <<2>>
  /\ vec["a"].m_storage # vec["b"].m_storage

\* The least k with 2^k >= n.
RECURSIVE CeilLog2(_)
CeilLog2(n) == IF n <= 1 THEN 0 ELSE 1 + CeilLog2((n + 1) \div 2)

\* C19: after n >= 1 push_backs on a vector constructed with length 0 and
\* capacity 0, the vector holds n elements, at most ceil(log2 n) + 1 of the
\* calls reallocated, and the capacity is at least n.
C19_GrowthAmortized ==
  tally.on /\ tally.pushes >= 1 =>
    /\ size(tally.x) = tally.pushes
    /\ tally.reallocs <= CeilLog2(tally.pushes) + 1
    /\ capacity(tally.x) >= tally.pushes

\* Five push_backs: four reallocations, capacity 8.
C19_Witness ==
  /\ tally.on /\ tally.pushes = 5 /\ tally.reallocs = 4
  /\ capacity(tally.x) = 8

\* C20: right after vector(cp) the length is 0, empty() is true and the
\* capacity is cp, for every cp >= 0.
C20_SizedConstructorStartsEmpty ==
  [][Did("ctor_size") =>
       \A x \in Vecs : Obj(x) =>
       \A cp \in Indexes : At(cp) /\ ctor_size(x, cp) =>
         /\ size(x)' = 0
         /\ empty(x)'
         /\ capacity(x)' = cp]_vars

\* The buffers a step releases, and the ones it allocates.
Released == {buf \in BufIds : mem[buf].live /\ ~mem'[buf].live}
Made == {buf \in BufIds : ~mem[buf].live /\ mem'[buf].live}
Owners(buf) == {x \in Vecs : vec[x].alive /\ vec[x].m_storage = buf}

\* C21: a call that reallocates object x (push_back and insert at full
\* capacity, reserve above the capacity, shrink_to_fit below it, assignment
\* from another vector, and every other call that reports a reallocation)
\* releases the buffer x had, which every iterator taken before refers to,
\* and gives x another one; begin(), end() and the iterator insert or erase
\* returns refer to the live buffer of x.
C21_ReallocationInvalidates ==
  [][\A x \in Vecs : Obj(x) /\ Alive(x) /\ status' = "ok" =>
       /\ last'.realloc =>
            /\ ~mem'[vec[x].m_storage].live
            /\ vec'[x].m_storage # vec[x].m_storage
       /\ (Did("push_back") \/ Did("insert")) /\ size(x) = capacity(x)
            => last'.realloc
       /\ Did("reserve") /\ last'.pos > capacity(x) => last'.realloc
       /\ Did("shrink_to_fit") /\ capacity(x) > size(x) => last'.realloc
       /\ Did("assign_op") =>
            \A other \in Vecs \ {x} : assign_op(x, other) => last'.realloc
       /\ vec'[x].alive =>
            /\ mem'[vec'[x].m_storage].live
            /\ begin(x)'.buf = vec'[x].m_storage
            /\ end(x)'.buf = vec'[x].m_storage
            /\ (Did("insert") \/ Did("insert_range") \/ Did("erase")
                  \/ Did("erase_range"))
                 => last'.ret.buf = vec'[x].m_storage]_vars

\* insert on a full vector whose buffer was 1: buffer 1 is released, the
\* vector owns buffer 2 and the returned iterator points into it.
C21_Witness ==
  /\ last.op = "insert" /\ last.realloc /\ status = "ok"
  /\ ~mem[1].live /\ Alive(last.x) /\ vec[last.x].m_storage = 2
  /\ last.ret = Iter(2, 1) /\ mem[2].live

\* C26: a step releases only live buffers: the destructor the one buffer its
\* vector owns, a reallocation the buffer the vector had, while it allocates
\* the one the vector gets, and no other call any; after the step every live
\* buffer has one owner and every vector owns a live buffer, so that none
\* is released twice and none is left once its vector is destroyed.
\* Assignment of a vector to itself releases and allocates nothing.
C26_BuffersReleasedOnce ==
  [][\A x \in Vecs : Obj(x) /\ status' = "ok" =>
       /\ Did("dtor") => Released = {vec[x].m_storage} /\ Made = {}
       /\ last'.realloc => Released = {vec[x].m_storage}
                             /\ Made = {vec'[x].m_storage}
       /\ Alive(x) /\ ~Did("dtor") /\ ~last'.realloc => Released = {} /\ Made = {}
       /\ ~Alive(x) => Released = {} /\ Made = {vec'[x].m_storage}
       /\ Did("assign_op") /\ assign_op(x, x) => mem' = mem /\ vec' = vec
       /\ \A buf \in BufIds : mem'[buf].live => Cardinality(Owners(buf)') = 1
       /\ \A y \in Vecs : vec'[y].alive => /\ vec'[y].m_storage \in BufIds
                                         /\ mem'[vec'[y].m_storage].live]_vars

\* Vector b has been destroyed while a holds <<1, 2>>: the one live buffer
\* left is the one a owns.
C26_Witness ==
  /\ last.op = "dtor" /\ last.x = "b" /\ status = "ok"
  /\ Alive("a") /\ ~Alive("b")
  /\ {buf \in BufIds : mem[buf].live} = {vec["a"].m_storage}
  /\ Content("a") = <<1, 2>>

\* C27: insert(pos, first, last) returns for every position and every range,
\* the empty range and the empty vector included.
C27_BulkInsertTerminates ==
  [][Did("insert_range") => status' = "ok"]_vars

\* The call of the step has aborted the process: it returned no value and
\* left the vectors and their buffers as they were.
Aborts ==
  /\ status' = "aborted" /\ last'.res = NoRes
  /\ vec' = vec /\ mem' = mem

\* C22: operator[](i) with i >= length, front() and back() on an empty vector,
\* and * and -> on a default (null) iterator abort the process on a failed
\* assertion: they return no value and change no vector; within the
\* contract operator[] returns element i and the process goes on.
C22_ContractViolationsAbort ==
  [][\A x \in Vecs : Obj(x) =>
       /\ Did("operator[]") =>
            IF last'.pos >= size(x) THEN Aborts
            ELSE /\ status' = "ok"
                 /\ last'.res = Returned(Content(x)[last'.pos + 1])
       /\ (Did("front") \/ Did("back")) /\ empty(x) => Aborts
       /\ (Did("operator*") \/ Did("operator->")) /\ last'.ret = NullIter
            => Aborts]_vars

\* operator[](1) on a vector of length 1 and capacity 2 has aborted.
C22_Witness ==
  /\ status = "aborted" /\ last.op = "operator[]" /\ last.pos = 1
  /\ size(last.x) = 1 /\ capacity(last.x) = 2

\* The operand of the iterator call of the step, before the call.
Operand(x) == Iter(vec[x].m_storage, last'.pos)

\* C23: for a non-null iterator it and an offset n, it + n == n + it,
\* (it + n) - n == it and (it + n) - it == n; for two iterators a, b into
\* one buffer, a - b == -(b - a); none of the operators changes a vector.
C23_IteratorArithmetic ==
  [][\A x \in Vecs : Obj(x) /\ status' = "ok" =>
       /\ Did("it+n") =>
            /\ last'.ret = IterPlus(Operand(x), last'.n)
            /\ IterEq(last'.ret, OffsetPlus(last'.n, Operand(x)))
            /\ IterEq(IterMinus(last'.ret, last'.n), Operand(x))
            /\ IterDiff(last'.ret, Operand(x)) = last'.n
       /\ Did("n+it") => IterEq(last'.ret, IterPlus(Operand(x), last'.n))
       /\ Did("it-n") => IterEq(IterPlus(last'.ret, last'.n), Operand(x))
       /\ Did("a-b") =>
            /\ last'.res = Returned(IterDiff(Operand(x), last'.ret))
            /\ last'.res.value = 0 - IterDiff(last'.ret, Operand(x))
       /\ (Did("it+n") \/ Did("n+it") \/ Did("it-n") \/ Did("a-b"))
            => vec' = vec /\ mem' = mem]_vars

\* begin() + 2 on a vector of length 2: the iterator returned is end().
C23_Witness ==
  /\ status = "ok" /\ last.op = "it+n" /\ last.pos = 0 /\ last.n = 2
  /\ last.ret = end("a") /\ size("a") = 2

\* C24: it++ and it-- return the position the operand had and move the
\* operand by one; ++it and --it move the operand by one and return the
\* position it then has; ++ followed by -- gives the operand back.
C24_IncrementDecrement ==
  [][\A x \in Vecs : Obj(x) /\ status' = "ok" =>
       LET after == Iter(vec[x].m_storage, last'.n) IN
       /\ Did("it++") => /\ IterEq(last'.ret, Operand(x))
                         /\ IterEq(after, IterPlus(Operand(x), 1))
       /\ Did("it--") => /\ IterEq(last'.ret, Operand(x))
                         /\ IterEq(after, IterMinus(Operand(x), 1))
       /\ Did("++it") => /\ IterEq(last'.ret, IterPlus(Operand(x), 1))
                         /\ IterEq(after, last'.ret)
                         /\ IterEq(PreDecrement(after).self, Operand(x))
       /\ Did("--it") => /\ IterEq(last'.ret, IterMinus(Operand(x), 1))
                         /\ IterEq(after, last'.ret)
                         /\ IterEq(PreIncrement(after).self, Operand(x))
       /\ Did("it++") => IterEq(PostDecrement(after).self, Operand(x))
       /\ (Did("it++") \/ Did("it--") \/ Did("++it") \/ Did("--it"))
            => vec' = vec /\ mem' = mem]_vars

\* it++ on begin() + 1: the operand is at 2, the iterator returned at 1.
C24_Witness ==
  /\ status = "ok" /\ last.op = "it++" /\ last.pos = 1 /\ last.n = 2
  /\ last.ret = Iter(vec["a"].m_storage, 1)

\* C25: a mutating call in which the allocation fails leaves its vector as
\* it was: same length, same capacity, same elements, and its buffer still
\* owned by it and not released.
C25_AllocationFailureKeepsArray ==
  [][status' = "bad_alloc" =>
       \A x \in Vecs : Obj(x) =>
         /\ vec'[x] = vec[x]
         /\ mem'[vec[x].m_storage] = mem[vec[x].m_storage]
         /\ mem'[vec'[x].m_storage].live]_vars

====
